---- MODULE Spec2Model ----
(***************************************************************************)
(* The TokenLaunchpad React component (src/components/TokenLaunchpad.jsx): *)
(* the form state, the createToken click handler with its three awaited    *)
(* wallet submissions, and the controls that are disabled while loading.   *)
(*                                                                         *)
(* Strings the code inspects character by character (the form fields, the  *)
(* base-58 address) are sequences of one-character strings; messages the   *)
(* code only stores and shows are TLA+ strings.  A nullable JavaScript     *)
(* value is the empty sequence (null) or a one-element sequence.           *)
(***************************************************************************)
EXTENDS Integers, Sequences, FiniteSets, TLC

VARIABLES wallet, name, symbol, imageUrl, initialSupply,
          isLoading, error, tokenAddress, active, last

vars == <<wallet, name, symbol, imageUrl, initialSupply,
          isLoading, error, tokenAddress, active, last>>

-----------------------------------------------------------------------------
(* Bounds of the model and constants of the program.                       *)

\* longest initial-supply string the user enters
MaxSupplyLen == 2
\* longest symbol string the user enters (above the 10-character limit)
MaxSymbolLen == 11

\* symbol.slice(0, 10)
SymbolLimit == 10
\* createInitializeMintInstruction(..., 9, ...) and 10**9
Decimals == 9

Null == <<>>
Some(v) == <<v>>

Min(a, b) == IF a <= b THEN a ELSE b

RECURSIVE Pow10(_)
Pow10(n) == IF n = 0 THEN 1 ELSE 10 * Pow10(n - 1)

-----------------------------------------------------------------------------
(* JavaScript primitives the handler applies to the form fields.           *)

\* a variant that takes "0" for falsy, as the number 0 is
FalsyAsNumber(s) == Len(s) = 0 \/ s = <<"0">>
\* !s for a string: only the empty string is falsy
Falsy(s) == Len(s) = 0

\* a variant that keeps the whole string
SliceWhole(s, n) == s
\* s.slice(0, n) for 0 <= n
Slice(s, n) == SubSeq(s, 1, Min(n, Len(s)))

Digits == {"0", "1", "2", "3", "4", "5", "6", "7", "8", "9"}

DigitVal(c) ==
    CASE c = "0" -> 0 [] c = "1" -> 1 [] c = "2" -> 2 [] c = "3" -> 3
      [] c = "4" -> 4 [] c = "5" -> 5 [] c = "6" -> 6 [] c = "7" -> 7
      [] c = "8" -> 8 [] c = "9" -> 9

\* length of the longest run of decimal digits of s starting at position i
RECURSIVE DigitRun(_, _)
DigitRun(s, i) ==
    IF i <= Len(s) /\ s[i] \in Digits THEN 1 + DigitRun(s, i + 1) ELSE 0

\* the decimal digits d as a natural number
RECURSIVE DigitsValue(_)
DigitsValue(d) ==
    IF Len(d) = 0 THEN 0
    ELSE 10 * DigitsValue(SubSeq(d, 1, Len(d) - 1)) + DigitVal(d[Len(d)])

(* parseFloat(s), for strings without whitespace, exponent or "Infinity":  *)
(* the longest prefix  [-] digits [. digits]  or  [-] . digits  is the     *)
(* number, and a string with no such prefix is NaN.  The result keeps the  *)
(* sign, the integer digits and the fraction digits.                       *)
ParseFloat(s) ==
    LET neg      == Len(s) >= 1 /\ s[1] = "-"
        start    == IF neg THEN 2 ELSE 1
        intLen   == DigitRun(s, start)
        dot      == start + intLen
        hasDot   == dot <= Len(s) /\ s[dot] = "."
        fracLen  == IF hasDot THEN DigitRun(s, dot + 1) ELSE 0
    IN  IF intLen + fracLen = 0
        THEN [nan |-> TRUE, neg |-> FALSE, int |-> <<>>, frac |-> <<>>]
        ELSE [nan  |-> FALSE,
              neg  |-> neg,
              int  |-> SubSeq(s, start, start + intLen - 1),
              frac |-> IF hasDot THEN SubSeq(s, dot + 1, dot + fracLen)
                       ELSE <<>>]

(* BigInt(Math.floor(x * 10**9)) for a parsed x that is not NaN.  The      *)
(* amount is kept as sign, whole tokens and base units below one token     *)
(* (amount = +/-(whole * 10^9 + units)), since one token is already 10^9   *)
(* base units.  Digits beyond the ninth fraction digit are what floor      *)
(* drops (towards minus infinity).  -0 becomes 0n.  The product is taken   *)
(* exactly: for the supplies entered here (a handful of characters) the    *)
(* double-precision product x * 10**9 is the exact one.                    *)
ScaledFloor(x) ==
    LET whole   == DigitsValue(x.int)
        kept    == SubSeq(x.frac, 1, Min(Decimals, Len(x.frac)))
        units   == DigitsValue(kept) * Pow10(Decimals - Len(kept))
        dropped == DigitsValue(SubSeq(x.frac, Len(kept) + 1, Len(x.frac))) # 0
        zero    == whole = 0 /\ units = 0 /\ ~dropped
        borrow  == x.neg /\ dropped
        units1  == IF borrow THEN units + 1 ELSE units
    IN  [neg   |-> x.neg /\ ~zero,
         whole |-> IF units1 = Pow10(Decimals) THEN whole + 1 ELSE whole,
         units |-> IF units1 = Pow10(Decimals) THEN 0 ELSE units1]

Zero == [neg |-> FALSE, whole |-> 0, units |-> 0]

-----------------------------------------------------------------------------
(* Library functions the handler calls on keys.                            *)

Base58Alphabet ==
    <<"1", "2", "3", "4", "5", "6", "7", "8", "9",
      "A", "B", "C", "D", "E", "F", "G", "H", "J", "K", "L", "M", "N",
      "P", "Q", "R", "S", "T", "U", "V", "W", "X", "Y", "Z",
      "a", "b", "c", "d", "e", "f", "g", "h", "i", "j", "k", "m", "n",
      "o", "p", "q", "r", "s", "t", "u", "v", "w", "x", "y", "z">>

RECURSIVE BytesValue(_)
BytesValue(b) ==
    IF Len(b) = 0 THEN 0
    ELSE 256 * BytesValue(SubSeq(b, 1, Len(b) - 1)) + b[Len(b)]

RECURSIVE LeadingZeros(_)
LeadingZeros(b) ==
    IF Len(b) > 0 /\ b[1] = 0 THEN 1 + LeadingZeros(Tail(b)) ELSE 0

RECURSIVE Base58Digits(_)
Base58Digits(n) ==
    IF n = 0 THEN <<>>
    ELSE Append(Base58Digits(n \div 58), Base58Alphabet[(n % 58) + 1])

\* publicKey.toBase58(): one "1" per leading zero byte, then the base-58
\* digits of the big-endian value
ToBase58(pk) ==
    [i \in 1..LeadingZeros(pk) |-> "1"] \o Base58Digits(BytesValue(pk))

\* getAssociatedTokenAddressSync(mint, owner, false, programId): the address
\* derived from the owner, the token program and the mint
AssociatedTokenAddress(mint, owner, allowOwnerOffCurve, programId) ==
    [derivedFrom |-> <<owner, programId, mint>>,
     allowOwnerOffCurve |-> allowOwnerOffCurve]

TOKEN_2022_PROGRAM_ID == "TOKEN_2022_PROGRAM_ID"

-----------------------------------------------------------------------------
(* Values the user, the wallet adapter and the network can supply.         *)

\* public keys, as byte strings (two bytes stand for the thirty-two)
MintKeys == {<<0, 7>>, <<255, 1>>}
\* Keypair.generate(): any key pair
Keypairs == {[publicKey |-> b] : b \in MintKeys}

\* the public key of the connected wallet
OwnerKey == <<7, 7>>
Wallets == [connected : BOOLEAN, publicKey : {Null, Some(OwnerKey)}]

Letters == <<"A", "B", "C", "D", "E", "F", "G", "H", "I", "J", "K", "L",
             "M", "N", "O", "P", "Q", "R", "S", "T", "U", "V", "W", "X">>
NameInputs == {<<>>, <<"T", "o", "k">>}
UrlInputs == {<<>>, <<"u">>}
\* the empty symbol, a symbol below the 10-character limit and the longest
\* symbol, above it
SymbolInputs ==
    {SubSeq(Letters, 1, n) : n \in {0, SymbolLimit - 1, MaxSymbolLen}}
SupplyChars == {"0", "5", ".", "-"}
\* what one keystroke in the supply input makes of its value s: one more
\* character at the end, or the last one deleted
SupplyInputs(s) ==
    {Append(s, c) : c \in IF Len(s) < MaxSupplyLen THEN SupplyChars ELSE {}}
        \cup {SubSeq(s, 1, Len(s) - 1)}

\* err.message of what the wallet or the RPC node throws
ExternalErrors == {"User rejected the request"}
\* BigInt(NaN)
RangeErrorMsg ==
    "The number NaN cannot be converted to a BigInt because it is not an integer"
\* a mint-to amount outside the unsigned 64-bit range of the instruction data
EncodeErrorMsg == "amount out of range"

WalletMsg == "Please connect your wallet first"
FieldsMsg == "Please fill in all fields"
FailedMsg(m) == "Failed to create token: " \o m

-----------------------------------------------------------------------------
(* The transactions createToken builds.                                    *)

Metadata(kp, n, s, u) ==
    [mint |-> kp.publicKey,
     name |-> n,
     symbol |-> Slice(s, SymbolLimit),
     uri |-> u,
     additionalMetadata |-> <<>>]

RpcCall(op) == [op |-> op, step |-> 0, tx |-> Null]
SendCall(k, tx) == [op |-> "sendTransaction", step |-> k, tx |-> Some(tx)]

\* Transaction 1: create and initialize the mint
Transaction1(owner, kp, metadata) ==
    [instructions |->
        <<[type |-> "createAccount", fromPubkey |-> owner,
           newAccountPubkey |-> kp.publicKey,
           programId |-> TOKEN_2022_PROGRAM_ID],
          [type |-> "initializeMetadataPointer", mint |-> kp.publicKey,
           authority |-> owner, metadataAddress |-> kp.publicKey,
           programId |-> TOKEN_2022_PROGRAM_ID],
          [type |-> "initializeMint", mint |-> kp.publicKey,
           decimals |-> Decimals, mintAuthority |-> owner,
           freezeAuthority |-> Null, programId |-> TOKEN_2022_PROGRAM_ID],
          [type |-> "initializeMetadata", programId |-> TOKEN_2022_PROGRAM_ID,
           mint |-> kp.publicKey, metadata |-> kp.publicKey,
           name |-> metadata.name, symbol |-> metadata.symbol,
           uri |-> metadata.uri, mintAuthority |-> owner,
           updateAuthority |-> owner]>>,
     feePayer |-> owner,
     signers |-> {owner, Some(kp.publicKey)}]

\* Transaction 2: create the associated token account
Transaction2(owner, kp) ==
    [instructions |->
        <<[type |-> "createAssociatedTokenAccount", payer |-> owner,
           associatedToken |->
               AssociatedTokenAddress(kp.publicKey, owner, FALSE,
                                      TOKEN_2022_PROGRAM_ID),
           owner |-> owner, mint |-> kp.publicKey,
           programId |-> TOKEN_2022_PROGRAM_ID]>>,
     feePayer |-> Null,
     signers |-> {owner}]

\* Transaction 3: mint the initial supply
Transaction3(owner, kp, supplyAmount) ==
    [instructions |->
        <<[type |-> "mintTo", mint |-> kp.publicKey,
           destination |->
               AssociatedTokenAddress(kp.publicKey, owner, FALSE,
                                      TOKEN_2022_PROGRAM_ID),
           authority |-> owner, amount |-> supplyAmount,
           multiSigners |-> <<>>, programId |-> TOKEN_2022_PROGRAM_ID]>>,
     feePayer |-> Null,
     signers |-> {owner}]

\* whether createMintToInstruction can throw on the amount: a negative amount
\* does not fit the instruction's unsigned 64-bit field, and what the encoder
\* does with it is not fixed by this code (the supplies modelled stay far
\* below 2^64 base units)
EncodeOutcomes(supplyAmount) ==
    IF supplyAmount.neg THEN {"throws", "encodes"} ELSE {"encodes"}

-----------------------------------------------------------------------------
(* The component's state.  active holds the invocations of createToken     *)
(* that are suspended at an await, each with the values its closure        *)
(* captured and the external calls it has made; last records how the most  *)
(* recent invocation ended (which return or catch it left through) and how *)
(* many transactions it had sent, or that it is still pending.             *)

Init ==
    /\ wallet = [connected |-> FALSE, publicKey |-> Null]
    /\ name = <<>>
    /\ symbol = <<>>
    /\ imageUrl = <<>>
    /\ initialSupply = <<>>
    /\ isLoading = FALSE
    /\ error = Null
    /\ tokenAddress = Null
    /\ active = {}
    /\ last = [result |-> "none", sends |-> 0]

\* disabled={isLoading} on the four inputs and on the button
InputsEnabled == ~isLoading
\* a variant in which the button is never disabled
ButtonAlwaysEnabled == TRUE
ButtonEnabled == ~isLoading

\* the adapter connects, disconnects or changes what it reports
WalletChanges(w) ==
    /\ w # wallet
    /\ wallet' = w
    /\ UNCHANGED <<name, symbol, imageUrl, initialSupply,
                   isLoading, error, tokenAddress, active, last>>

setName(v) ==
    /\ InputsEnabled
    /\ name' = v
    /\ UNCHANGED <<wallet, symbol, imageUrl, initialSupply,
                   isLoading, error, tokenAddress, active, last>>

setSymbol(v) ==
    /\ InputsEnabled
    /\ symbol' = v
    /\ UNCHANGED <<wallet, name, imageUrl, initialSupply,
                   isLoading, error, tokenAddress, active, last>>

setImageUrl(v) ==
    /\ InputsEnabled
    /\ imageUrl' = v
    /\ UNCHANGED <<wallet, name, symbol, initialSupply,
                   isLoading, error, tokenAddress, active, last>>

setInitialSupply(v) ==
    /\ InputsEnabled
    /\ v # initialSupply
    /\ initialSupply' = v
    /\ UNCHANGED <<wallet, name, symbol, imageUrl,
                   isLoading, error, tokenAddress, active, last>>

\* a variant that looks at the connection alone
WalletMissingConnectedOnly == ~wallet.connected
\* !wallet.connected || !wallet.publicKey
WalletMissing == ~wallet.connected \/ wallet.publicKey = Null

\* a variant that leaves the supply out
FieldsMissingThree == Falsy(name) \/ Falsy(symbol) \/ Falsy(imageUrl)
\* !name || !symbol || !imageUrl || !initialSupply
FieldsMissing ==
    Falsy(name) \/ Falsy(symbol) \/ Falsy(imageUrl) \/ Falsy(initialSupply)

Sends(calls) == SelectSeq(calls, LAMBDA c : c.op = "sendTransaction")

\* how an awaited call settles
Returned == [threw |-> FALSE, message |-> ""]
Thrown(message) == [threw |-> TRUE, message |-> message]

\* the invocation i, suspended at pc on one more external call
Awaiting(i, pc, call) ==
    [i EXCEPT !.pc = pc, !.calls = Append(@, call), !.result = Null]

(* The click handler up to its first await: the two checks, then the       *)
(* status updates, the new key pair, the metadata and the rent request.    *)
createToken ==
    /\ ButtonEnabled
    /\ IF WalletMissing
       THEN /\ error' = Some(WalletMsg)
            /\ last' = [result |-> "wallet", sends |-> 0]
            /\ UNCHANGED <<isLoading, tokenAddress, active>>
       ELSE IF FieldsMissing
       THEN /\ error' = Some(FieldsMsg)
            /\ last' = [result |-> "fields", sends |-> 0]
            /\ UNCHANGED <<isLoading, tokenAddress, active>>
       ELSE \E mintKeypair \in Keypairs :
            /\ isLoading' = TRUE
            /\ error' = Null
            /\ tokenAddress' = Null
            /\ active' = active \cup
                 {[pc |-> "rent",
                   result |-> Null,
                   mintKeypair |-> mintKeypair,
                   owner |-> wallet.publicKey,
                   metadata |-> Metadata(mintKeypair, name, symbol, imageUrl),
                   initialSupply |-> initialSupply,
                   calls |-> <<RpcCall("getMinimumBalanceForRentExemption")>>]}
            /\ last' = [result |-> "pending", sends |-> 0]
    /\ UNCHANGED <<wallet, name, symbol, imageUrl, initialSupply>>

\* the call i awaits returns
AwaitReturns(i) ==
    /\ i.result = Null
    /\ active' = (active \ {i}) \cup {[i EXCEPT !.result = Some(Returned)]}
    /\ UNCHANGED <<wallet, name, symbol, imageUrl, initialSupply,
                   isLoading, error, tokenAddress, last>>

\* the call i awaits throws
AwaitThrows(i, message) ==
    /\ i.result = Null
    /\ active' = (active \ {i}) \cup {[i EXCEPT !.result = Some(Thrown(message))]}
    /\ UNCHANGED <<wallet, name, symbol, imageUrl, initialSupply,
                   isLoading, error, tokenAddress, last>>

\* a variant in which a rejected await is not rethrown
ThrewIgnored(i) == FALSE
\* whether the await of i rethrows into the catch block
Threw(i) == i.result[1].threw

\* a variant without the finally block
CatchKeepsLoading(i, message) ==
    /\ error' = Some(FailedMsg(message))
    /\ active' = active \ {i}
    /\ last' = [result |-> "failed", sends |-> Len(Sends(i.calls))]
    /\ UNCHANGED <<isLoading, tokenAddress>>
\* catch (err) { setError(...) } finally { setIsLoading(false) }
Catch(i, message) ==
    /\ error' = Some(FailedMsg(message))
    /\ isLoading' = FALSE
    /\ active' = active \ {i}
    /\ last' = [result |-> "failed", sends |-> Len(Sends(i.calls))]
    /\ UNCHANGED tokenAddress

\* i goes on to await one more external call
Continue(i, pc, call) ==
    /\ active' = (active \ {i}) \cup {Awaiting(i, pc, call)}
    /\ UNCHANGED <<isLoading, error, tokenAddress, last>>

\* after await connection.getMinimumBalanceForRentExemption(...): build
\* transaction 1 and ask for the latest blockhash
AfterRent(i) ==
    /\ i.pc = "rent" /\ i.result # Null
    /\ IF Threw(i)
       THEN Catch(i, i.result[1].message)
       ELSE Continue(i, "blockhash", RpcCall("getLatestBlockhash"))
    /\ UNCHANGED <<wallet, name, symbol, imageUrl, initialSupply>>

\* after await connection.getLatestBlockhash(): partial-sign with the mint
\* key and send transaction 1
AfterBlockhash(i) ==
    /\ i.pc = "blockhash" /\ i.result # Null
    /\ IF Threw(i)
       THEN Catch(i, i.result[1].message)
       ELSE Continue(i, "send1",
               SendCall(1, Transaction1(i.owner, i.mintKeypair, i.metadata)))
    /\ UNCHANGED <<wallet, name, symbol, imageUrl, initialSupply>>

\* after await wallet.sendTransaction(transaction, ...): derive the
\* associated account and send transaction 2
AfterSend1(i) ==
    /\ i.pc = "send1" /\ i.result # Null
    /\ IF Threw(i)
       THEN Catch(i, i.result[1].message)
       ELSE Continue(i, "send2",
               SendCall(2, Transaction2(i.owner, i.mintKeypair)))
    /\ UNCHANGED <<wallet, name, symbol, imageUrl, initialSupply>>

\* after await wallet.sendTransaction(transaction2, ...): compute the amount,
\* build and send transaction 3; BigInt throws on NaN and the instruction
\* builder may throw on the amount
AfterSend2(i) ==
    /\ i.pc = "send2" /\ i.result # Null
    /\ LET parsed == ParseFloat(i.initialSupply)
       IN  IF Threw(i)
           THEN Catch(i, i.result[1].message)
           ELSE IF parsed.nan
           THEN Catch(i, RangeErrorMsg)
           ELSE \E outcome \in EncodeOutcomes(ScaledFloor(parsed)) :
                IF outcome = "throws"
                THEN Catch(i, EncodeErrorMsg)
                ELSE Continue(i, "send3",
                        SendCall(3, Transaction3(i.owner, i.mintKeypair,
                                                 ScaledFloor(parsed))))
    /\ UNCHANGED <<wallet, name, symbol, imageUrl, initialSupply>>

\* a variant that does not call setTokenAddress
AfterSend3NoAddress(i) ==
    /\ i.pc = "send3" /\ i.result # Null
    /\ IF Threw(i)
       THEN Catch(i, i.result[1].message)
       ELSE /\ isLoading' = FALSE
            /\ active' = active \ {i}
            /\ last' = [result |-> "succeeded", sends |-> Len(Sends(i.calls))]
            /\ UNCHANGED <<error, tokenAddress>>
    /\ UNCHANGED <<wallet, name, symbol, imageUrl, initialSupply>>
\* after await wallet.sendTransaction(transaction3, ...):
\* setTokenAddress(...), then finally
AfterSend3(i) ==
    /\ i.pc = "send3" /\ i.result # Null
    /\ IF Threw(i)
       THEN Catch(i, i.result[1].message)
       ELSE /\ tokenAddress' = Some(ToBase58(i.mintKeypair.publicKey))
            /\ isLoading' = FALSE
            /\ active' = active \ {i}
            /\ last' = [result |-> "succeeded", sends |-> Len(Sends(i.calls))]
            /\ UNCHANGED error
    /\ UNCHANGED <<wallet, name, symbol, imageUrl, initialSupply>>

Next ==
    \/ \E w \in Wallets : WalletChanges(w)
    \/ \E v \in NameInputs : setName(v)
    \/ \E v \in SymbolInputs : setSymbol(v)
    \/ \E v \in UrlInputs : setImageUrl(v)
    \/ \E v \in SupplyInputs(initialSupply) : setInitialSupply(v)
    \/ createToken
    \/ \E i \in active : AwaitReturns(i)
    \/ \E i \in active, message \in ExternalErrors : AwaitThrows(i, message)
    \/ \E i \in active : AfterRent(i)
    \/ \E i \in active : AfterBlockhash(i)
    \/ \E i \in active : AfterSend1(i)
    \/ \E i \in active : AfterSend2(i)
    \/ \E i \in active : AfterSend3(i)

Spec == Init /\ [][Next]_vars

\* every awaited call returns or throws, and the suspended function then
\* resumes
Settles ==
    \E i \in active :
        \/ AwaitReturns(i)
        \/ \E message \in ExternalErrors : AwaitThrows(i, message)
Resumes ==
    \E i \in active :
        \/ AfterRent(i) \/ AfterBlockhash(i) \/ AfterSend1(i)
        \/ AfterSend2(i) \/ AfterSend3(i)

FairSpec == Spec /\ WF_vars(Settles \/ Resumes)

-----------------------------------------------------------------------------
(* What the claims speak of.                                               *)

\* the steps of the transactions i has sent, in the order sent
SendSteps(i) == [k \in 1..Len(Sends(i.calls)) |-> Sends(i.calls)[k].step]

\* the operations i has called, in the order called
CallOps(i) == [k \in 1..Len(i.calls) |-> i.calls[k].op]

CallOrder ==
    <<"getMinimumBalanceForRentExemption", "getLatestBlockhash",
      "sendTransaction", "sendTransaction", "sendTransaction">>

\* the k-th instruction of the n-th transaction i has sent
Instruction(i, n, k) == Sends(i.calls)[n].tx[1].instructions[k]

\* the button is enabled and the wallet check passes
WalletReady == ~isLoading /\ wallet.connected /\ wallet.publicKey # Null

\* a step in which an invocation of createToken ended or started: in a state
\* with the button enabled only the click handler writes last
Invoked == ~isLoading /\ last' # last

\* the entered supply is a finite number that is not negative
ValidSupply(s) ==
    LET x == ParseFloat(s)
    IN  /\ ~x.nan
        /\ x.neg => DigitsValue(x.int) = 0 /\ DigitsValue(x.frac) = 0

-----------------------------------------------------------------------------
(* C1: when the awaited submission of step k throws, the invocation makes  *)
(* no further external call (no later submission, nothing that undoes the  *)
(* earlier ones), and when it resumes it ends Failed with the thrown       *)
(* message, no address, loading cleared, having sent exactly steps 1..k.   *)
C1_ThrowEndsWorkflow ==
    [][\A i \in active :
         (i.result # Null /\ i.result[1].threw) =>
            /\ active' \subseteq active
            /\ i \notin active' =>
                 /\ active' = {}
                 /\ error' = Some(FailedMsg(i.result[1].message))
                 /\ tokenAddress' = Null
                 /\ ~isLoading'
                 /\ last' = [result |-> "failed",
                             sends |-> Len(Sends(i.calls))]
                 /\ (i.pc = "send2" => SendSteps(i) = <<1, 2>>)
                 /\ (i.pc = "send1" => SendSteps(i) = <<1>>)
                 /\ (i.pc = "send3" => SendSteps(i) = <<1, 2, 3>>)]_vars

\* step 1 was submitted, step 2 threw, and the invocation ended Failed
\* without a third submission
C1_Witness ==
    /\ last = [result |-> "failed", sends |-> 2]
    /\ error = Some(FailedMsg("User rejected the request"))
    /\ ~isLoading
    /\ active = {}

(* C2: a click with a connected wallet and an empty field starts no        *)
(* external call and shows the missing-fields error.                       *)
C2_EmptyFieldNoCalls ==
    [][(/\ WalletReady
        /\ \/ name = <<>> \/ symbol = <<>>
           \/ imageUrl = <<>> \/ initialSupply = <<>>
        /\ Invoked) =>
            /\ last' = [result |-> "fields", sends |-> 0]
            /\ error' = Some(FieldsMsg)
            /\ active' = {}
            /\ ~isLoading']_vars

\* the click was refused for the empty supply alone
C2_Witness ==
    /\ last.result = "fields"
    /\ error = Some(FieldsMsg)
    /\ wallet.connected /\ wallet.publicKey # Null
    /\ name # <<>> /\ symbol # <<>> /\ imageUrl # <<>>
    /\ initialSupply = <<>>
    /\ active = {}

(* C3: a click while the wallet is not connected or has no public key      *)
(* starts no external call and shows the wallet error, whatever the        *)
(* fields hold.                                                            *)
C3_NoWalletNoCalls ==
    [][(/\ ~isLoading
        /\ ~wallet.connected \/ wallet.publicKey = Null
        /\ Invoked) =>
            /\ last' = [result |-> "wallet", sends |-> 0]
            /\ error' = Some(WalletMsg)
            /\ active' = {}
            /\ ~isLoading']_vars

\* the wallet error is shown although a field is empty too
C3_Witness ==
    /\ last.result = "wallet"
    /\ error = Some(WalletMsg)
    /\ wallet.connected /\ wallet.publicKey = Null
    /\ name = <<>>
    /\ active = {}

(* C4: when the third submission of an invocation has returned and the     *)
(* invocation resumes, the address shown is the base-58 text of the public *)
(* key generated in that invocation, the key all three transactions name   *)
(* as the mint; loading is cleared and no error is set.                    *)
C4_SuccessShowsOwnMint ==
    [][\A i \in active :
         (/\ i.pc = "send3"
          /\ i.result = Some(Returned)
          /\ i \notin active') =>
            /\ tokenAddress' = Some(ToBase58(i.mintKeypair.publicKey))
            /\ ~isLoading'
            /\ error' = Null
            /\ last' = [result |-> "succeeded", sends |-> 3]
            /\ Instruction(i, 1, 1).newAccountPubkey = i.mintKeypair.publicKey
            /\ Instruction(i, 1, 3).mint = i.mintKeypair.publicKey
            /\ Instruction(i, 2, 1).mint = i.mintKeypair.publicKey
            /\ Instruction(i, 3, 1).mint = i.mintKeypair.publicKey]_vars

\* an invocation ended Succeeded and its address is shown
C4_Witness ==
    /\ last = [result |-> "succeeded", sends |-> 3]
    /\ tokenAddress # Null
    /\ Len(tokenAddress[1]) > 0
    /\ error = Null
    /\ ~isLoading

(* C5: loading is true exactly while an invocation is suspended, and once  *)
(* set it is eventually cleared with the invocation ended Failed or        *)
(* Succeeded, given that every awaited call returns or throws.             *)
C5_LoadingCleared ==
    /\ [](isLoading <=> active # {})
    /\ isLoading ~> (~isLoading /\ last.result \in {"failed", "succeeded"})

\* an invocation that set loading has ended in the catch block with loading
\* cleared
C5_Witness ==
    /\ last.result = "failed"
    /\ ~isLoading
    /\ active = {}

(* C6: a click with a connected wallet, no field empty and a supply that   *)
(* is not a finite non-negative number is refused with an error and starts *)
(* no external call.                                                       *)
C6_InvalidSupplyRefused ==
    [][(/\ WalletReady
        /\ name # <<>> /\ symbol # <<>>
        /\ imageUrl # <<>> /\ initialSupply # <<>>
        /\ ~ValidSupply(initialSupply)
        /\ Invoked) =>
            /\ error' # Null
            /\ active' = {}
            /\ ~isLoading']_vars

(* C7: with a connected wallet, the other fields filled and the supply     *)
(* "0", a click passes validation; the invocation gets to the third        *)
(* submission when the first two return, the amount it mints is 0, and it  *)
(* ends Succeeded when the third returns.                                  *)
C7_ZeroSupply ==
    /\ [](\A i \in active :
            (i.initialSupply = <<"0">> /\ i.pc = "send3") =>
                /\ SendSteps(i) = <<1, 2, 3>>
                /\ Instruction(i, 3, 1).type = "mintTo"
                /\ Instruction(i, 3, 1).amount = Zero)
    /\ [][(/\ WalletReady
           /\ name # <<>> /\ symbol # <<>> /\ imageUrl # <<>>
           /\ initialSupply = <<"0">>
           /\ Invoked) =>
               /\ last'.result = "pending"
               /\ \E j \in active' : j.initialSupply = <<"0">>]_vars
    /\ [][\A i \in active :
            (/\ i.initialSupply = <<"0">>
             /\ i.result = Some(Returned)
             /\ i \notin active') =>
                /\ i.pc = "send2" => \E j \in active' : j.pc = "send3"
                /\ i.pc = "send3" => /\ last'.result = "succeeded"
                                     /\ tokenAddress' # Null
                                     /\ error' = Null]_vars

\* the third submission, minting 0, has returned
C7_Witness ==
    \E i \in active :
        /\ i.initialSupply = <<"0">>
        /\ i.pc = "send3"
        /\ i.result = Some(Returned)
        /\ Instruction(i, 3, 1).amount = Zero

(* C8: the symbol in the metadata initialization of transaction 1 is the   *)
(* first min(10, length) characters of the entered symbol, and the symbol  *)
(* field keeps what was entered while the invocation runs.                 *)
C8_SymbolTruncated ==
    /\ [](\A i \in active :
            Len(Sends(i.calls)) >= 1 =>
                LET sent == Instruction(i, 1, 4).symbol
                IN  /\ Instruction(i, 1, 4).type = "initializeMetadata"
                    /\ Len(sent) = Min(10, Len(symbol))
                    /\ \A k \in 1..Len(sent) : sent[k] = symbol[k]
                    /\ Len(symbol) <= 10 => sent = symbol)
    /\ [][(active # {} \/ active' # {}) => symbol' = symbol]_vars

\* a symbol of more than 10 characters was entered and 10 were sent
C8_Witness ==
    \E i \in active :
        /\ Len(symbol) > 10
        /\ Len(Sends(i.calls)) >= 1
        /\ Len(Instruction(i, 1, 4).symbol) = 10
        /\ symbol[10] = Instruction(i, 1, 4).symbol[10]

(* C9: at most one invocation is suspended at a time; its calls are made   *)
(* in the order rent, blockhash, step 1, step 2, step 3, each once and     *)
(* after the one before has settled; at most one sendTransaction is in     *)
(* flight.                                                                 *)
C9_OneSubmissionAtATime ==
    /\ Cardinality(active) <= 1
    /\ Cardinality({i \in active :
                      i.pc \in {"send1", "send2", "send3"}
                      /\ i.result = Null}) <= 1
    /\ \A i \in active :
          /\ Len(i.calls) <= 5
          /\ CallOps(i) = SubSeq(CallOrder, 1, Len(i.calls))
          /\ SendSteps(i) = [k \in 1..Len(Sends(i.calls)) |-> k]
          /\ i.pc = CASE Len(i.calls) = 1 -> "rent"
                      [] Len(i.calls) = 2 -> "blockhash"
                      [] Len(i.calls) = 3 -> "send1"
                      [] Len(i.calls) = 4 -> "send2"
                      [] OTHER -> "send3"

\* the third submission is in flight after the first two, in order
C9_Witness ==
    \E i \in active :
        /\ i.pc = "send3" /\ i.result = Null
        /\ SendSteps(i) = <<1, 2, 3>>
        /\ isLoading

(* C10: an error and an address are never both shown, and neither is shown *)
(* while loading.                                                          *)
C10_StatusExclusive ==
    /\ ~(error # Null /\ tokenAddress # Null)
    /\ isLoading => (error = Null /\ tokenAddress = Null)

====
